---- MODULE Spec2Model ----
(***************************************************************************)
(* Model of the camera-acquisition controller and input validator of      *)
(* src/public/LeitorQRCode.js (class LeitorQRCode, lines 6-312; the file  *)
(* holds a second class of the same name, lines 314-624, whose processar   *)
(* differs and is modelled as processarSincrono).                          *)
(*                                                                         *)
(* JavaScript runs every event-loop task to completion, so each action is  *)
(* one task: a public method call up to its first pending await, the       *)
(* settlement of a pending camera promise with the continuation that       *)
(* follows it, one timer callback, or one invocation of the decoder's      *)
(* streaming callback (its `await this.processar(...)` awaits a promise    *)
(* that is already settled, so its continuation runs in the microtasks of  *)
(* the same task).                                                         *)
(*                                                                         *)
(* The ZXing reader (zxing.min.js) and the browser (getUserMedia, timers)  *)
(* are the environment: whether a camera-open attempt settles, how it      *)
(* settles, what the decoder reports and whether reset() throws are        *)
(* inputs chosen with \E.                                                  *)
(***************************************************************************)
EXTENDS Integers, Sequences, FiniteSets, TLC

\* Bounds of the model.
MaxSessoes == 2        \* calls of iniciarLeitura that begin a session
MaxResultados == 2     \* positive decode results delivered by the decoder
MaxDispositivos == 2   \* devices in a list of listVideoInputDevices()
MaxSessoesImagem == 1  \* sessions begun in the runs that also decode still images
MaxOuvintes == 2       \* listeners registered with on()
MaxSessoesOuvintes == 1  \* sessions begun in the runs with listeners
MaxLen == 3            \* code units of a text given to validarEntrada or sanitizeTexto

\* Default of validarEntrada's maxLength parameter.
maxLengthPadrao == 2048

Sessoes == 1..MaxSessoes

VARIABLES
  iniciado,       \* this._iniciado
  cameraAtiva,    \* this._cameraAtiva
  timeoutId,      \* this._timeoutId; 0 is null, s > 0 the timer armed by session s
  videoVisivel,   \* this.video.style.display = 'block'
  srcObject,      \* this.video.srcObject; 0 is null, s > 0 the stream opened for session s
  armados,        \* browser: timers armed by setTimeout and neither fired nor cleared
  decodificando,  \* reader: 0, or the session whose stream its decode loop is reading
  callback,       \* reader: the callback the decode loop calls: "", "constraints" or "device"
  adiados,        \* browser: pending setTimeout(..., 0) tasks queued by processar
  etapa,          \* per session: where its attempt sequence in iniciarLeitura stands
  nSessoes,       \* sessions begun so far
  processados,    \* per session: invocations of processar by its decoder callbacks
  timeouts,       \* per session: timeout 'error' events emitted
  emitted,        \* the events passed to _emit by the last task, in order, and between
                  \* them its calls of the parser, of setTimeout(..., 0), of preencherCampos
                  \* and of the listeners
  ouvintes,       \* this._eventListeners: per event that has listeners, whether each throws
  last,           \* the last task: what ran, for which session, which branch, what it threw
  variante,       \* which class of the file the reader is: 1 (lines 6-312), 2 (lines 314-624)
  entrada,        \* the argument of the pure function under check
  saida           \* its result

vars == <<iniciado, cameraAtiva, timeoutId, videoVisivel, srcObject, armados,
          decodificando, callback, adiados, etapa, nSessoes,
          processados, timeouts, emitted, ouvintes, last, variante, entrada, saida>>

\* The variables of the reader and of its environment.
leitor == <<iniciado, cameraAtiva, timeoutId, videoVisivel, srcObject, armados,
            decodificando, callback, adiados, etapa, nSessoes,
            processados, timeouts, emitted, ouvintes, last, variante>>

----------------------------------------------------------------------------
\* The controller's fields, the video element and the environment it acts on,
\* as one record that the methods below transform.

Ctx ==
  [iniciado |-> iniciado, cameraAtiva |-> cameraAtiva, timeoutId |-> timeoutId,
   videoVisivel |-> videoVisivel, srcObject |-> srcObject, armados |-> armados,
   decodificando |-> decodificando, callback |-> callback, adiados |-> adiados,
   out |-> <<>>, escapou |-> FALSE]

\* The fields the task has written are kept, whether it returned or an
\* exception left it (escapou).
Apply(c) ==
  /\ iniciado' = c.iniciado
  /\ cameraAtiva' = c.cameraAtiva
  /\ timeoutId' = c.timeoutId
  /\ videoVisivel' = c.videoVisivel
  /\ srcObject' = c.srcObject
  /\ armados' = c.armados
  /\ decodificando' = c.decodificando
  /\ callback' = c.callback
  /\ adiados' = c.adiados
  /\ emitted' = c.out
  /\ UNCHANGED <<ouvintes, variante, entrada, saida>>

\* What `last` records of a task: erro is what the task threw ("" when nothing)
\* or, for the handler of the failed sequence, the error it caught; dev the
\* device attempt 3 chose (0 otherwise); ativa the value of _cameraAtiva when
\* the task began; cb the callback the decode loop had when the task began
\* (set by the decoder's and the timer's tasks); texto the text the task gave
\* to processar and parserOk whether the parser accepts that text (set by the
\* actions that call processar).
Feito(op, s, kind, erro, dev) ==
  [op |-> op, sess |-> s, kind |-> kind, erro |-> erro, dev |-> dev,
   ativa |-> cameraAtiva, cb |-> "", texto |-> [tipo |-> "string", chars |-> <<>>],
   parserOk |-> TRUE]

\* The statement that follows another: it does not run when an exception is
\* leaving the task.
se(c, d) == IF c.escapou THEN c ELSE d

\* The loop of _emit without the try around cb(data): the exception of a
\* listener ends the loop and leaves _emit.
RECURSIVE chamarSemTry(_, _, _)
chamarSemTry(c, eventName, i) ==
  IF i > Len(ouvintes[eventName]) THEN c
  ELSE LET c1 == [c EXCEPT !.out = Append(@, <<"ouvinte", eventName, i>>)] IN
       IF ouvintes[eventName][i] THEN [c1 EXCEPT !.escapou = TRUE]
       ELSE chamarSemTry(c1, eventName, i + 1)

emitSemTry(c, eventName, data) ==
  LET c1 == [c EXCEPT !.out = Append(@, <<eventName, data>>)] IN
  IF eventName \notin DOMAIN ouvintes THEN c1 ELSE chamarSemTry(c1, eventName, 1)

\* for (const cb of this._eventListeners[eventName]) try { cb(data) } catch
\* { console.error(...) }, from the i-th listener on: the call of each
\* listener is recorded; what a listener throws is caught.
RECURSIVE chamarOuvintes(_, _, _)
chamarOuvintes(c, eventName, i) ==
  IF i > Len(ouvintes[eventName]) THEN c
  ELSE chamarOuvintes([c EXCEPT !.out = Append(@, <<"ouvinte", eventName, i>>)],
                      eventName, i + 1)

\* _emit(eventName, data): the event is recorded, and every listener of the
\* event is called with data, in the order of registration.
emit(c, eventName, data) ==
  LET c1 == [c EXCEPT !.out = Append(@, <<eventName, data>>)] IN
  IF eventName \notin DOMAIN ouvintes THEN c1 ELSE chamarOuvintes(c1, eventName, 1)

\* atualizarStatus(mensagem)
atualizarStatus(c, mensagem) == emit(c, "status", mensagem)

\* clearTimeout(id): a null, fired or already cleared id is ignored.
clearTimeout(c, id) == [c EXCEPT !.armados = @ \ {id}]

\* this.leitorCodigo.reset(): stops the streaming decode, unless it throws.
leitorReset(c, lanca) ==
  IF lanca THEN c ELSE [c EXCEPT !.decodificando = 0, !.callback = ""]

\* _showVideo(mostrar)
showVideo(c, mostrar) == [c EXCEPT !.videoVisivel = mostrar]

----------------------------------------------------------------------------
\* Text.  A decoded text is a record: tipo is what typeof gives, chars its
\* UTF-16 code units.  A code unit is written as itself when printable; "TAB"
\* is U+0009, "CTL" is U+0001, "SUR" is an unpaired surrogate (U+D800), "CJK"
\* is U+4E2D, "FFFD" is the replacement character.

Texto(chars) == [tipo |-> "string", chars |-> chars]

\* [A-Za-z0-9_] of the whitelist's \w, as far as the model's alphabet goes.
Palavra == {"a", "m", "p", "l", "t", "g", "q", "u", "o", "x", "F", "2", "3", "9", "_"}

\* \s of the whitelist.
Espaco == {" ", "TAB"}

\* The punctuation the whitelist names, as far as the model's alphabet goes.
Pontuacao == {".", ";", "#", "&", "/", "<", ">", "\"", "'"}

\* /[\x00-\x08\x0B\x0C\x0E-\x1F]/
Controle == {"CTL"}

\* new TextEncoder().encode(texto): an unpaired surrogate is encoded as U+FFFD.
encode(chars) == [i \in 1..Len(chars) |-> IF chars[i] = "SUR" THEN "FFFD" ELSE chars[i]]

\* new TextDecoder('utf-8', {fatal: true}).decode(bytes) throws on a malformed
\* sequence; an unpaired surrogate would be one.
decodeFalha(bytes) == \E i \in 1..Len(bytes) : bytes[i] = "SUR"

\* t.replace(/ch/g, ent)
RECURSIVE replace(_, _, _)
replace(t, ch, ent) ==
  IF t = <<>> THEN <<>>
  ELSE (IF Head(t) = ch THEN ent ELSE <<Head(t)>>) \o replace(Tail(t), ch, ent)

\* sanitizeTexto(t) with the ampersand replaced last.
sanitizeTextoEComercialPorUltimo(t) ==
  LET t1 == replace(t, "<", <<"&", "l", "t", ";">>)
      t2 == replace(t1, ">", <<"&", "g", "t", ";">>)
      t3 == replace(t2, "\"", <<"&", "q", "u", "o", "t", ";">>)
      t4 == replace(t3, "'", <<"&", "#", "3", "9", ";">>)
      t5 == replace(t4, "/", <<"&", "#", "x", "2", "F", ";">>)
  IN  replace(t5, "&", <<"&", "a", "m", "p", ";">>)

\* sanitizeTexto(t)
sanitizeTexto(t) ==
  LET t1 == replace(t, "&", <<"&", "a", "m", "p", ";">>)
      t2 == replace(t1, "<", <<"&", "l", "t", ";">>)
      t3 == replace(t2, ">", <<"&", "g", "t", ";">>)
      t4 == replace(t3, "\"", <<"&", "q", "u", "o", "t", ";">>)
      t5 == replace(t4, "'", <<"&", "#", "3", "9", ";">>)
  IN  replace(t5, "/", <<"&", "#", "x", "2", "F", ";">>)

\* validarEntrada(texto, maxLength) with the test of the control characters
\* made before the test of the length.
validarEntradaControleAntes(texto, maxLength) ==
  IF texto.tipo # "string"
    THEN [erro |-> "Entrada nao e uma string.", valor |-> <<>>]
  ELSE IF \E i \in 1..Len(texto.chars) : texto.chars[i] \in Controle
    THEN [erro |-> "Entrada contem caracteres de controle invalidos.", valor |-> <<>>]
  ELSE IF Len(texto.chars) > maxLength
    THEN [erro |-> "Entrada muito longa.", valor |-> <<>>]
  ELSE IF decodeFalha(encode(texto.chars))
    THEN [erro |-> "Texto contem bytes invalidos UTF-8.", valor |-> <<>>]
  ELSE IF ~ (/\ Len(texto.chars) >= 1
             /\ \A i \in 1..Len(texto.chars) :
                  texto.chars[i] \in Palavra \cup Espaco \cup Pontuacao)
    THEN [erro |-> "Entrada contem caracteres invalidos.", valor |-> <<>>]
  ELSE [erro |-> "", valor |-> sanitizeTexto(texto.chars)]

\* validarEntrada(texto, maxLength): erro is the message thrown ("" when none),
\* valor the value returned.
validarEntrada(texto, maxLength) ==
  IF texto.tipo # "string"
    THEN [erro |-> "Entrada nao e uma string.", valor |-> <<>>]
  ELSE IF Len(texto.chars) > maxLength
    THEN [erro |-> "Entrada muito longa.", valor |-> <<>>]
  ELSE IF decodeFalha(encode(texto.chars))
    THEN [erro |-> "Texto contem bytes invalidos UTF-8.", valor |-> <<>>]
  ELSE IF \E i \in 1..Len(texto.chars) : texto.chars[i] \in Controle
    THEN [erro |-> "Entrada contem caracteres de controle invalidos.", valor |-> <<>>]
  ELSE IF ~ (/\ Len(texto.chars) >= 1
             /\ \A i \in 1..Len(texto.chars) :
                  texto.chars[i] \in Palavra \cup Espaco \cup Pontuacao)
    THEN [erro |-> "Entrada contem caracteres invalidos.", valor |-> <<>>]
  ELSE [erro |-> "", valor |-> sanitizeTexto(texto.chars)]

\* A call the task makes that is not an event: it is recorded among the events.
chamada(c, nome, arg) == [c EXCEPT !.out = Append(@, <<nome, arg>>)]

\* wasm.extrair_dados_documento(texto): it is given the text as decoded, not
\* the value validarEntrada returned.
extrairDados(c) == chamada(c, "parser", "texto bruto")

\* preencherCampos(dados)
preencherCampos(c) == chamada(c, "preencherCampos", "json")

\* processar(texto) with the error of validarEntrada swallowed: the text goes
\* to the parser whatever the validation said.
processarSemValidar(c, texto, parserOk) ==
  LET c1 == extrairDados(atualizarStatus(c, "Processando com WebAssembly...")) IN
  IF parserOk
    THEN [c |-> [chamada(c1, "setTimeout", "0") EXCEPT !.adiados = @ + 1],
          erro |-> "", parser |-> TRUE]
    ELSE [c |-> atualizarStatus(c1, "Erro ao processar QR Code"),
          erro |-> "Erro do parser", parser |-> TRUE]

\* processar(texto) of the first class: the validation result is discarded and
\* the raw text goes to wasm.extrair_dados_documento, which returns (parserOk)
\* or throws; on success the form is filled by a task deferred with
\* setTimeout(..., 0).  erro is what processar throws ("" when it returns).
processar(c, texto, parserOk) ==
  LET v == validarEntrada(texto, maxLengthPadrao) IN
  IF v.erro # ""
    THEN [c |-> atualizarStatus(c, "Entrada invalida"), erro |-> v.erro, parser |-> FALSE]
  ELSE LET c1 == extrairDados(atualizarStatus(c, "Processando com WebAssembly...")) IN
       IF parserOk
         THEN [c |-> [chamada(c1, "setTimeout", "0") EXCEPT !.adiados = @ + 1],
               erro |-> "", parser |-> TRUE]
         ELSE [c |-> atualizarStatus(c1, "Erro ao processar QR Code"),
               erro |-> "Erro do parser", parser |-> TRUE]

\* processar(texto) of the second class: the form is filled at once and no
\* 'processado' event is emitted.
processarSincrono(c, texto, parserOk) ==
  LET v == validarEntrada(texto, maxLengthPadrao) IN
  IF v.erro # ""
    THEN [c |-> atualizarStatus(c, "Entrada invalida"), erro |-> v.erro, parser |-> FALSE]
  ELSE LET c1 == extrairDados(atualizarStatus(c, "Processando com WebAssembly...")) IN
       IF parserOk
         THEN [c |-> atualizarStatus(preencherCampos(c1), "Dados processados localmente."),
               erro |-> "", parser |-> TRUE]
         ELSE [c |-> atualizarStatus(c1, "Erro ao processar QR Code"),
               erro |-> "Erro do parser", parser |-> TRUE]

\* this.processar(texto) of the class the reader is an instance of.
processarDaClasse(c, texto, parserOk) ==
  IF variante = 1 THEN processar(c, texto, parserOk)
  ELSE processarSincrono(c, texto, parserOk)

\* liberarCamera() without its last statement: _timeoutId is left as it was.
liberarCameraSemTimeout(c, resetLanca) ==
  LET c1 == leitorReset(c, resetLanca)
      c2 == IF resetLanca THEN atualizarStatus(c1, "Erro ao resetar leitor") ELSE c1
      c3 == IF c2.srcObject # 0 THEN [c2 EXCEPT !.srcObject = 0] ELSE c2
      c4 == showVideo(c3, FALSE)
      c5 == atualizarStatus(c4, "Camera liberada.")
  IN  [c5 EXCEPT !.cameraAtiva = FALSE]

\* liberarCamera() relying on reset() to close the stream: the tracks of
\* video.srcObject are not stopped and the reference is kept.
liberarCameraSemStream(c, resetLanca) ==
  LET c1 == leitorReset(c, resetLanca)
      c2 == IF resetLanca THEN atualizarStatus(c1, "Erro ao resetar leitor") ELSE c1
      c4 == showVideo(c2, FALSE)
      c5 == atualizarStatus(c4, "Camera liberada.")
      c6 == [c5 EXCEPT !.cameraAtiva = FALSE]
  IN  IF c6.timeoutId # 0
        THEN [clearTimeout(c6, c6.timeoutId) EXCEPT !.timeoutId = 0]
        ELSE c6

\* liberarCamera(); resetLanca: this.leitorCodigo.reset() throws.
liberarCamera(c, resetLanca) ==
  LET c1 == leitorReset(c, resetLanca)
      c2 == IF resetLanca THEN atualizarStatus(c1, "Erro ao resetar leitor") ELSE c1
      c3 == IF c2.srcObject # 0 THEN [c2 EXCEPT !.srcObject = 0] ELSE c2
      c4 == showVideo(c3, FALSE)
      c5 == atualizarStatus(c4, "Camera liberada.")
      c6 == [c5 EXCEPT !.cameraAtiva = FALSE]
  IN  se(c2, se(c5, IF c6.timeoutId # 0
                      THEN [clearTimeout(c6, c6.timeoutId) EXCEPT !.timeoutId = 0]
                      ELSE c6))

\* The callback of attempts 1 and 2 with liberarCamera after processar
\* instead of in a finally: a throw of processar skips it.
callbackConstraintsSemFinally(c, texto, parserOk, resetLanca) ==
  LET c1 == [clearTimeout(c, c.timeoutId) EXCEPT !.timeoutId = 0]
      c2 == atualizarStatus(c1, "Codigo detectado")
      p  == processarDaClasse(c2, texto, parserOk)
  IN  IF p.erro # ""
        THEN [c |-> emit(p.c, "error", p.erro), erro |-> "", parser |-> p.parser]
        ELSE [c |-> liberarCamera(p.c, resetLanca), erro |-> "", parser |-> p.parser]

\* The streaming callback given to decodeFromConstraints (attempts 1 and 2),
\* called with a result: try { ... } catch { emit error } finally { liberarCamera }.
callbackConstraints(c, texto, parserOk, resetLanca) ==
  LET c1 == [clearTimeout(c, c.timeoutId) EXCEPT !.timeoutId = 0]
      c2 == atualizarStatus(c1, "Codigo detectado")
      p  == processarDaClasse(c2, texto, parserOk)
      c3 == IF p.erro # "" THEN emit(p.c, "error", p.erro) ELSE p.c
  IN  [c |-> liberarCamera(c3, resetLanca), erro |-> "", parser |-> p.parser]

\* The attempt-3 callback without clearTimeout(this._timeoutId): the timer is
\* left to liberarCamera.
callbackDeviceSemClear(c, texto, parserOk, resetLanca) ==
  LET c2 == atualizarStatus(c, "Codigo detectado")
      p  == processarDaClasse(c2, texto, parserOk)
  IN  IF p.erro # ""
        THEN [c |-> p.c, erro |-> p.erro, parser |-> p.parser]
        ELSE [c |-> liberarCamera(p.c, resetLanca), erro |-> "", parser |-> p.parser]

\* The streaming callback given to decodeFromVideoDevice (attempt 3), called
\* with a result: no try, so liberarCamera runs only when processar returns.
callbackDevice(c, texto, parserOk, resetLanca) ==
  LET c1 == [clearTimeout(c, c.timeoutId) EXCEPT !.timeoutId = 0]
      c2 == atualizarStatus(c1, "Codigo detectado")
      p  == processarDaClasse(c2, texto, parserOk)
  IN  IF p.erro # ""
        THEN [c |-> p.c, erro |-> p.erro, parser |-> p.parser]
        ELSE [c |-> liberarCamera(p.c, resetLanca), erro |-> "", parser |-> p.parser]

\* The end of the callbacks without the instanceof test: every error is reported.
callbackErroSemFiltro(c, naoEncontrado) == emit(c, "errorLeitura", "erro")

\* Both callbacks end alike: an error other than NotFoundException is reported.
callbackErro(c, naoEncontrado) ==
  IF naoEncontrado THEN c ELSE emit(c, "errorLeitura", "erro")

----------------------------------------------------------------------------
\* Attempt 3: the enumerated devices and the choice among them.

\* decodificarImagem(imagem): imagem is a File (whose load into an <img>
\* succeeds or not), an HTMLImageElement or something else; decodeFromImage
\* resolves with a result or rejects; the text of the result goes to
\* processar.  Its continuations touch the reader only through processar, so
\* the call is one step.  erro is what the call rejects with, ate the
\* statement the call reached.
decodificarImagem(c, imagem, carregou, decodificou, texto, parserOk) ==
  LET c1 == atualizarStatus(c, "Decodificando QR Code da imagem...")
      falhou(cx, erro, ate) ==
        [c |-> atualizarStatus(cx, "Erro ao decodificar imagem"), erro |-> erro, ate |-> ate]
  IN  IF imagem \notin {"File", "HTMLImageElement"}
        THEN falhou(c1, "Parametro deve ser File ou HTMLImageElement", "tipo")
      ELSE IF imagem = "File" /\ ~ carregou
        THEN falhou(c1, "Erro ao carregar imagem", "carga")
      ELSE IF ~ decodificou
        THEN falhou(c1, "Erro do decodificador", "decodeFromImage")
      ELSE LET c2 == atualizarStatus(c1, "Codigo detectado")
               p  == processarDaClasse(c2, texto, parserOk)
           IN  IF p.erro # "" THEN falhou(p.c, p.erro, "processar")
               ELSE [c |-> p.c, erro |-> "", ate |-> "processar"]

\* The letters of the labels, lower-cased as the i flag of the regular
\* expression compares them.
minuscula(ch) ==
  CASE ch = "A" -> "a" [] ch = "B" -> "b" [] ch = "C" -> "c" [] ch = "E" -> "e"
    [] ch = "K" -> "k" [] ch = "R" -> "r" [] OTHER -> ch

\* Whether the word occurs in the label, letters compared without case.
contem(rotulo, palavra) ==
  \E i \in 1..(Len(rotulo) - Len(palavra) + 1) :
    \A j \in 1..Len(palavra) : minuscula(rotulo[i + j - 1]) = palavra[j]

\* /back|rear|traseira/i.test(label)
rotuloTraseiro(rotulo) ==
  \/ contem(rotulo, <<"b", "a", "c", "k">>)
  \/ contem(rotulo, <<"r", "e", "a", "r">>)
  \/ contem(rotulo, <<"t", "r", "a", "s", "e", "i", "r", "a">>)

\* Device labels: '' (what a browser gives before the permission is granted),
\* 'Front', 'bac', 'Back', 'xREAR', 'traseira'.
Rotulos ==
  {<<>>, <<"F", "r", "o", "n", "t">>, <<"b", "a", "c">>, <<"B", "a", "c", "k">>,
   <<"x", "R", "E", "A", "R">>, <<"t", "r", "a", "s", "e", "i", "r", "a">>}

\* The devices listVideoInputDevices() lists: the label and the facingMode
\* property the code reads ("undefined" when the device has none).
Dispositivos == [label : Rotulos, facingMode : {"environment", "user", "undefined"}]

\* The lists listVideoInputDevices() resolves with.
Listas == UNION {[1..n -> Dispositivos] : n \in 0..MaxDispositivos}

\* dispositivos.find(d => ...): the index of the first device among those the
\* predicate accepts, 0 for undefined.
find(lista, aceitos) ==
  IF \E i \in 1..Len(lista) : lista[i] \in aceitos
    THEN CHOOSE i \in 1..Len(lista) :
           /\ lista[i] \in aceitos
           /\ \A j \in 1..(i - 1) : lista[j] \notin aceitos
    ELSE 0

\* The lists a session's enumeration resolves with: one front camera; a front
\* camera and then a rear one.
ListasSessao ==
  {<<[label |-> <<"F", "r", "o", "n", "t">>, facingMode |-> "undefined"]>>,
   <<[label |-> <<"F", "r", "o", "n", "t">>, facingMode |-> "undefined"],
     [label |-> <<"B", "a", "c", "k">>, facingMode |-> "undefined"]>>}

\* The choice of cameraTraseira with the facingMode test made before the
\* test of the label.
escolherCameraModoPrimeiro(lista) ==
  LET porRotulo == {d \in Dispositivos : rotuloTraseiro(d.label)}
      porModo == {d \in Dispositivos : d.facingMode = "environment"}
      a == find(lista, porModo)
      b == IF a = 0 THEN find(lista, porRotulo) ELSE a
  IN  IF b = 0 THEN 1 ELSE b

\* The index of cameraTraseira in a non-empty list.
escolherCamera(lista) ==
  LET porRotulo == {d \in Dispositivos : rotuloTraseiro(d.label)}
      porModo == {d \in Dispositivos : d.facingMode = "environment"}
      a == find(lista, porRotulo)
      b == IF a = 0 THEN find(lista, porModo) ELSE a
  IN  IF b = 0 THEN 1 ELSE b

\* The handler of the innermost catch without its call of liberarCamera.
todasFalharamSemLiberar(c, erro, resetLanca) ==
  LET c1 == [clearTimeout(c, c.timeoutId) EXCEPT !.timeoutId = 0]
      c2 == atualizarStatus(c1, "Erro ao abrir camera")
  IN  emit(c2, "error", erro)

\* The handler of the innermost catch of iniciarLeitura: every attempt failed.
todasFalharam(c, erro, resetLanca) ==
  LET c1 == [clearTimeout(c, c.timeoutId) EXCEPT !.timeoutId = 0]
      c2 == atualizarStatus(c1, "Erro ao abrir camera")
      c3 == se(c2, emit(c2, "error", erro))
  IN  se(c3, liberarCamera(c3, resetLanca))

\* The callback given to setTimeout by iniciarLeitura.
aoTimeout(c, resetLanca) ==
  LET c1 == atualizarStatus(c, "Timeout: nao foi possivel abrir a camera.")
      c2 == se(c1, emit(c1, "error", "Timeout de abertura da camera"))
  IN  se(c2, liberarCamera(c2, resetLanca))

----------------------------------------------------------------------------
\* The texts the decoder delivers: valid, with a control character, with a
\* character outside the whitelist.
Textos == {Texto(<<"a", "&", "<">>), Texto(<<"a", "CTL">>), Texto(<<"CJK">>)}

InitLeitor ==
  /\ iniciado = FALSE
  /\ cameraAtiva = FALSE
  /\ timeoutId = 0
  /\ videoVisivel = FALSE
  /\ srcObject = 0
  /\ armados = {}
  /\ decodificando = 0
  /\ callback = ""
  /\ adiados = 0
  /\ etapa = [s \in Sessoes |-> "nenhuma"]
  /\ nSessoes = 0
  /\ processados = [s \in Sessoes |-> 0]
  /\ timeouts = [s \in Sessoes |-> 0]
  /\ emitted = <<>>
  /\ ouvintes = <<>>
  /\ last = [op |-> "construtor", sess |-> 0, kind |-> "", erro |-> "", dev |-> 0,
             ativa |-> FALSE, cb |-> "", texto |-> [tipo |-> "string", chars |-> <<>>],
             parserOk |-> TRUE]

\* The reader of the first class after its constructor.
Init ==
  /\ InitLeitor
  /\ variante = 1
  /\ entrada = <<>>
  /\ saida = <<>>

\* inicializar(), when initWasm() settles; the page initializes the reader
\* once and may try again after a failure.
Inicializar(ok) ==
  /\ ~ iniciado
  /\ IF ok
       THEN Apply([Ctx EXCEPT !.iniciado = TRUE])
       ELSE Apply(emit(atualizarStatus(Ctx, "Erro ao inicializar WASM"), "error", "wasm"))
  /\ last' = Feito("inicializar", 0, IF ok THEN "ok" ELSE "falha",
                   IF ok THEN "" ELSE "wasm", 0)
  /\ UNCHANGED <<etapa, nSessoes, processados, timeouts>>

\* iniciarLeitura() up to its first await: the session's timer is armed and
\* attempt 1 (facingMode 'environment') is pending.
iniciarSessao(c, s) ==
  LET c1 == [c EXCEPT !.cameraAtiva = TRUE]
      c2 == atualizarStatus(c1, "Iniciando leitura da camera...")
      c3 == showVideo(c2, TRUE)
  IN  [c3 EXCEPT !.timeoutId = s, !.armados = @ \cup {s}]

\* iniciarLeitura() without its first line: an uninitialized reader starts a session.
IniciarSemVerificarIniciado ==
  /\ ~ iniciado
  /\ ~ cameraAtiva
  /\ nSessoes < MaxSessoes
  /\ LET s == nSessoes + 1 IN
       /\ Apply(iniciarSessao(Ctx, s))
       /\ nSessoes' = s
       /\ etapa' = [etapa EXCEPT ![s] = "att1"]
       /\ last' = Feito("iniciarLeitura", s, "nova", "", 0)
  /\ UNCHANGED <<processados, timeouts>>

\* iniciarLeitura() called while not initialized: it throws.
IniciarNaoIniciado ==
  /\ ~ iniciado
  /\ Apply(Ctx)
  /\ last' = Feito("iniciarLeitura", 0, "naoIniciado", "Lib nao inicializada.", 0)
  /\ UNCHANGED <<etapa, nSessoes, processados, timeouts>>

\* iniciarLeitura() without its second line: a call during a session begins
\* another one over it.
IniciarSemVerificarAtiva ==
  /\ iniciado
  /\ cameraAtiva
  /\ nSessoes < MaxSessoes
  /\ LET s == nSessoes + 1 IN
       /\ Apply(iniciarSessao(Ctx, s))
       /\ nSessoes' = s
       /\ etapa' = [etapa EXCEPT ![s] = "att1"]
       /\ last' = Feito("iniciarLeitura", s, "nova", "", 0)
  /\ UNCHANGED <<processados, timeouts>>

\* iniciarLeitura() called while a session is active: it returns.
IniciarJaAtiva ==
  /\ iniciado
  /\ cameraAtiva
  /\ Apply(Ctx)
  /\ last' = Feito("iniciarLeitura", 0, "jaAtiva", "", 0)
  /\ UNCHANGED <<etapa, nSessoes, processados, timeouts>>

\* iniciarLeitura() called on an initialized, inactive reader: a session begins.
IniciarNova ==
  /\ iniciado
  /\ ~ cameraAtiva
  /\ nSessoes < MaxSessoes
  /\ LET s == nSessoes + 1 IN
       /\ Apply(iniciarSessao(Ctx, s))
       /\ nSessoes' = s
       /\ etapa' = [etapa EXCEPT ![s] = "att1"]
       /\ last' = Feito("iniciarLeitura", s, "nova", "", 0)
  /\ UNCHANGED <<processados, timeouts>>

\* Attempt 1 rejects and the sequence goes straight to the enumeration of
\* attempt 3, without attempt 2.
Falha1SemTentativa2(s) ==
  /\ etapa[s] = "att1"
  /\ etapa' = [etapa EXCEPT ![s] = "lista"]
  /\ Apply(Ctx)
  /\ last' = Feito("falha", s, "att1", "", 0)
  /\ UNCHANGED <<nSessoes, processados, timeouts>>

\* Attempt 1 rejects: attempt 2 (facingMode exact 'environment') is started.
Falha1(s) ==
  /\ etapa[s] = "att1"
  /\ etapa' = [etapa EXCEPT ![s] = "att2"]
  /\ Apply(Ctx)
  /\ last' = Feito("falha", s, "att1", "", 0)
  /\ UNCHANGED <<nSessoes, processados, timeouts>>

\* Attempt 2 rejects: attempt 3 starts by enumerating the devices.
Falha2(s) ==
  /\ etapa[s] = "att2"
  /\ etapa' = [etapa EXCEPT ![s] = "lista"]
  /\ Apply(Ctx)
  /\ last' = Feito("falha", s, "att2", "", 0)
  /\ UNCHANGED <<nSessoes, processados, timeouts>>

\* listVideoInputDevices() resolves with a non-empty list: the chosen device
\* is opened with decodeFromVideoDevice.
Listou(s, lista) ==
  /\ etapa[s] = "lista"
  /\ lista # <<>>
  /\ etapa' = [etapa EXCEPT ![s] = "att3"]
  /\ Apply(Ctx)
  /\ last' = Feito("listou", s, "att3", "", escolherCamera(lista))
  /\ UNCHANGED <<nSessoes, processados, timeouts>>

\* listVideoInputDevices() rejects or resolves with an empty list, or
\* decodeFromVideoDevice rejects: the sequence has failed.
Falha3(s, motivo, resetLanca) ==
  /\ \/ etapa[s] = "lista" /\ motivo \in {"Nenhuma camera disponivel", "enumeracao"}
     \/ etapa[s] = "att3" /\ motivo = "abertura"
  /\ etapa' = [etapa EXCEPT ![s] = "fim"]
  /\ Apply(todasFalharam(Ctx, motivo, resetLanca))
  /\ last' = Feito("falha", s, "todas", motivo, 0)
  /\ UNCHANGED <<nSessoes, processados, timeouts>>

\* An attempt resolves: the reader has attached the stream to the video
\* element and its decode loop calls the attempt's callback from now on.
Abriu(s) ==
  /\ etapa[s] \in {"att1", "att2", "att3"}
  /\ etapa' = [etapa EXCEPT ![s] = "fim"]
  /\ Apply([Ctx EXCEPT !.srcObject = s, !.decodificando = s,
                       !.callback = IF etapa[s] = "att3" THEN "device" ELSE "constraints"])
  /\ last' = Feito("abriu", s, etapa[s], "", 0)
  /\ UNCHANGED <<nSessoes, processados, timeouts>>

\* Positive decode results delivered so far.
RECURSIVE somaAte(_, _)
somaAte(f, n) == IF n = 0 THEN 0 ELSE f[n] + somaAte(f, n - 1)
Resultados == somaAte(processados, MaxSessoes)

\* The decode loop calls the callback with a result.
CallbackResultado(texto, parserOk, resetLanca) ==
  /\ decodificando # 0
  /\ Resultados < MaxResultados
  /\ LET s == decodificando
         r == IF callback = "device"
                THEN callbackDevice(Ctx, texto, parserOk, resetLanca)
                ELSE callbackConstraints(Ctx, texto, parserOk, resetLanca)
     IN  /\ Apply(r.c)
         /\ processados' = [processados EXCEPT ![s] = @ + 1]
         /\ last' = [Feito("callback", s, "resultado", r.erro, 0)
                       EXCEPT !.texto = texto, !.parserOk = parserOk, !.cb = callback]
  /\ UNCHANGED <<etapa, nSessoes, timeouts>>

\* The decode loop calls the callback with an error and no result.
CallbackErro(naoEncontrado) ==
  /\ decodificando # 0
  /\ Apply(callbackErro(Ctx, naoEncontrado))
  /\ last' = Feito("callback", decodificando,
                   IF naoEncontrado THEN "naoEncontrado" ELSE "erro", "", 0)
  /\ UNCHANGED <<etapa, nSessoes, processados, timeouts>>

\* The timer armed by session s fires.
Timeout(s, resetLanca) ==
  /\ s \in armados
  /\ Apply(aoTimeout([Ctx EXCEPT !.armados = @ \ {s}], resetLanca))
  /\ timeouts' = [timeouts EXCEPT ![s] = @ + 1]
  /\ last' = [Feito("timeout", s, etapa[s], "", 0)
                EXCEPT !.cb = IF decodificando = s THEN callback ELSE ""]
  /\ UNCHANGED <<etapa, nSessoes, processados>>

\* resetarLeitura(); lanca1: its own reset() throws (try {} catch {}), lanca2:
\* the reset() of liberarCamera throws.
resetar(c, lanca1, lanca2) ==
  LET c1 == atualizarStatus(c, "Resetando leitura...")
      c2 == leitorReset(c1, lanca1)
      c3 == se(c1, liberarCamera(c2, lanca2))
  IN  se(c3, emit(c3, "reset", ""))

ResetarLeitura(lanca1, lanca2) ==
  /\ Apply(resetar(Ctx, lanca1, lanca2))
  /\ last' = Feito("resetarLeitura", 0,
                   IF last.op = "resetarLeitura" THEN "repetida" ELSE "primeira", "", 0)
  /\ UNCHANGED <<etapa, nSessoes, processados, timeouts>>

\* The deferred task with the event emitted before the form is filled.
tarefaAdiadaEventoAntes(c) ==
  LET c1 == emit([c EXCEPT !.adiados = @ - 1], "processado", "json")
      c2 == preencherCampos(c1)
  IN  atualizarStatus(c2, "Dados processados localmente.")

\* The task processar deferred with setTimeout(..., 0): preencherCampos writes
\* the form, then 'processado' is emitted.
tarefaAdiada(c) ==
  LET c1 == preencherCampos([c EXCEPT !.adiados = @ - 1])
      c2 == emit(c1, "processado", "json")
  IN  atualizarStatus(c2, "Dados processados localmente.")

TarefaAdiada ==
  /\ adiados > 0
  /\ Apply(tarefaAdiada(Ctx))
  /\ last' = Feito("adiada", 0, "", "", 0)
  /\ UNCHANGED <<etapa, nSessoes, processados, timeouts>>

\* The texts the decoder delivers and what the parser answers to them; the
\* answer to a text that does not reach the parser is fixed at TRUE.
CasosResultado ==
  {k \in [texto : Textos, parserOk : BOOLEAN] :
     validarEntrada(k.texto, maxLengthPadrao).erro # "" => k.parserOk}

\* decodificarImagem(imagem) called by the page, with what the browser and
\* the reader answer.
DecodificarImagem(imagem, carregou, decodificou, texto, parserOk) ==
  /\ adiados < MaxResultados
  /\ LET r == decodificarImagem(Ctx, imagem, carregou, decodificou, texto, parserOk) IN
       /\ Apply(r.c)
       /\ last' = [Feito("decodificarImagem", 0, r.ate, r.erro, 0)
                     EXCEPT !.texto = texto, !.parserOk = parserOk]
  /\ UNCHANGED <<etapa, nSessoes, processados, timeouts>>

\* One task of the event loop; Lanca: whether the reader's reset() may throw.
Proximo(Lanca) ==
  \/ \E ok \in BOOLEAN : Inicializar(ok)
  \/ IniciarNaoIniciado
  \/ IniciarJaAtiva
  \/ IniciarNova
  \/ \E s \in Sessoes : Falha1(s)
  \/ \E s \in Sessoes : Falha2(s)
  \/ \E s \in Sessoes, lista \in ListasSessao : Listou(s, lista)
  \/ \E s \in Sessoes, resetLanca \in Lanca,
        motivo \in {"Nenhuma camera disponivel", "enumeracao", "abertura"} :
       Falha3(s, motivo, resetLanca)
  \/ \E s \in Sessoes : Abriu(s)
  \/ \E k \in CasosResultado, resetLanca \in Lanca :
       CallbackResultado(k.texto, k.parserOk, resetLanca)
  \/ \E naoEncontrado \in BOOLEAN : CallbackErro(naoEncontrado)
  \/ \E s \in Sessoes, resetLanca \in Lanca : Timeout(s, resetLanca)
  \/ \E lanca1 \in Lanca, lanca2 \in Lanca : ResetarLeitura(lanca1, lanca2)
  \/ TarefaAdiada

Next == Proximo(BOOLEAN)

Spec == Init /\ [][Next]_vars

\* The same program with a reader whose reset() never throws.
NextResetOk == Proximo({FALSE})

SpecResetOk == Init /\ [][NextResetOk]_vars

\* The calls of decodificarImagem and what the browser and the reader answer
\* to them; an answer the call does not get to is fixed at TRUE.
CasosImagem ==
  {k \in [imagem : {"File", "HTMLImageElement", "outro"}, carregou : BOOLEAN,
          decodificou : BOOLEAN, texto : Textos, parserOk : BOOLEAN] :
     LET carrega == k.imagem = "HTMLImageElement" \/ (k.imagem = "File" /\ k.carregou)
         valida == validarEntrada(k.texto, maxLengthPadrao).erro = ""
     IN  /\ k.imagem # "File" => k.carregou
         /\ ~ carrega => k.decodificou
         /\ ~ (carrega /\ k.decodificou) => k.texto = Texto(<<"a", "&", "<">>)
         /\ ~ (carrega /\ k.decodificou /\ valida) => k.parserOk}

\* The reader of either class of the file, with still images decoded beside
\* at most MaxSessoesImagem camera sessions; its reset() does not throw.
InitImagem ==
  /\ InitLeitor
  /\ variante \in {1, 2}
  /\ entrada = <<>>
  /\ saida = <<>>

NextImagem ==
  \/ Proximo({FALSE}) /\ nSessoes' <= MaxSessoesImagem
  \/ \E k \in CasosImagem :
       DecodificarImagem(k.imagem, k.carregou, k.decodificou, k.texto, k.parserOk)

SpecImagem == InitImagem /\ [][NextImagem]_vars

\* Listeners registered so far.
RECURSIVE nOuvintes(_)
nOuvintes(evs) ==
  IF evs = {} THEN 0
  ELSE LET e == CHOOSE x \in evs : TRUE IN Len(ouvintes[e]) + nOuvintes(evs \ {e})

\* on(eventName, callback), called by the page after it constructed the
\* reader; lanca: the callback throws when it is called.
On(eventName, lanca) ==
  /\ last.op \in {"construtor", "on"}
  /\ nOuvintes(DOMAIN ouvintes) < MaxOuvintes
  /\ ouvintes' = [e \in DOMAIN ouvintes \cup {eventName} |->
                    IF e = eventName
                      THEN Append(IF e \in DOMAIN ouvintes THEN ouvintes[e] ELSE <<>>, lanca)
                      ELSE ouvintes[e]]
  /\ emitted' = <<>>
  /\ last' = Feito("on", 0, eventName, "", 0)
  /\ UNCHANGED <<iniciado, cameraAtiva, timeoutId, videoVisivel, srcObject, armados,
                 decodificando, callback, adiados, etapa, nSessoes, processados,
                 timeouts, variante, entrada, saida>>

\* The reader with listeners of 'status' and 'error', some of which throw, in
\* at most MaxSessoesOuvintes camera sessions; its reset() does not throw.
NextOuvintes ==
  \/ Proximo({FALSE}) /\ nSessoes' <= MaxSessoesOuvintes
  \/ \E eventName \in {"status", "error"}, lanca \in BOOLEAN : On(eventName, lanca)

SpecOuvintes == Init /\ [][NextOuvintes]_vars

\* The choice of the device of attempt 3, applied to every non-empty list of
\* at most MaxDispositivos devices.
InitEscolha ==
  /\ InitLeitor
  /\ variante = 1
  /\ entrada \in Listas \ {<<>>}
  /\ saida = 0

\* Lines 142-144 run on the list: saida is the index of cameraTraseira, the
\* device whose deviceId is given to decodeFromVideoDevice.
EscolherCamera ==
  /\ saida = 0
  /\ saida' = escolherCamera(entrada)
  /\ UNCHANGED <<leitor, entrada>>

SpecEscolha == InitEscolha /\ [][EscolherCamera]_vars

\* The code units of the texts given to the validator: a letter, the six
\* characters sanitizeTexto replaces, a control character, an unpaired
\* surrogate and a CJK ideograph.
Alfabeto == {"a", "&", "<", ">", "\"", "'", "/", "CTL", "SUR", "CJK"}

\* The arguments of validarEntrada: a text of at most MaxLen code units or a
\* number, with a maxLength below MaxLen or the default.
Entradas ==
  [texto : {Texto(t) : t \in UNION {[1..n -> Alfabeto] : n \in 0..MaxLen}}
             \cup {[tipo |-> "number", chars |-> <<>>]},
   maxLength : {MaxLen - 1, maxLengthPadrao}]

InitTexto ==
  /\ InitLeitor
  /\ variante = 1
  /\ entrada \in Entradas
  /\ saida = [op |-> "", erro |-> "", valor |-> <<>>, denovo |-> <<>>]

\* this.validarEntrada(texto, maxLength)
Validar ==
  /\ saida.op = ""
  /\ LET r == validarEntrada(entrada.texto, entrada.maxLength) IN
       saida' = [op |-> "validarEntrada", erro |-> r.erro, valor |-> r.valor,
                 denovo |-> <<>>]
  /\ UNCHANGED <<leitor, entrada>>

\* this.sanitizeTexto(t) on a string, and again on what it returned.
Sanitizar ==
  /\ saida.op = ""
  /\ entrada.texto.tipo = "string"
  /\ LET r == sanitizeTexto(entrada.texto.chars) IN
       saida' = [op |-> "sanitizeTexto", erro |-> "", valor |-> r,
                 denovo |-> sanitizeTexto(r)]
  /\ UNCHANGED <<leitor, entrada>>

NextTexto == Validar \/ Sanitizar

SpecTexto == InitTexto /\ [][NextTexto]_vars

----------------------------------------------------------------------------
\* Properties.

\* The number of events named ev among those a task emitted.
Conta(eventos, ev) == Cardinality({i \in 1..Len(eventos) : eventos[i][1] = ev})

\* The number of events ev with payload data among those a task emitted.
ContaEv(eventos, ev, data) ==
  Cardinality({i \in 1..Len(eventos) : eventos[i] = <<ev, data>>})

\* The last task ran processar: both of its paths begin with one of these.
Processou ==
  ContaEv(emitted, "status", "Entrada invalida")
    + ContaEv(emitted, "status", "Processando com WebAssembly...") > 0

\* The sessions whose attempt sequence in iniciarLeitura is awaiting a promise.
Pendentes == {s \in Sessoes : etapa[s] \in {"att1", "att2", "lista", "att3"}}

\* C1: when a session's timer fires while none of its attempts has succeeded,
\* the handler emits exactly one 'error' event, the timeout error, and leaves
\* _cameraAtiva false, _timeoutId null and no stream on the video element; no
\* session ever emits the timeout error twice.
C1_TimeoutUmaVezELibera ==
  /\ \A s \in Sessoes : timeouts[s] <= 1
  /\ (last.op = "timeout" /\ last.kind # "fim") =>
       /\ timeouts[last.sess] = 1
       /\ ContaEv(emitted, "error", "Timeout de abertura da camera") = 1
       /\ Conta(emitted, "error") = 1
       /\ ~ cameraAtiva
       /\ timeoutId = 0
       /\ srcObject = 0

\* C1 witness: the timer of a session has fired while its second attempt was pending.
C1_Witness ==
  /\ last.op = "timeout"
  /\ last.kind = "att2"
  /\ timeouts[last.sess] = 1

\* C2: after the decoder callback of any attempt has handled a positive
\* result, whether processar returned or threw, the camera is released:
\* _cameraAtiva is false, the timer is cleared and no stream is open.
C2_ResultadoSempreLibera ==
  (last.op = "callback" /\ last.kind = "resultado") =>
    /\ ~ cameraAtiva
    /\ timeoutId = 0
    /\ armados = {}
    /\ srcObject = 0

\* C3: a positive result delivered while _cameraAtiva is false (after the
\* camera was released) is ignored: processar does not run and no
\* 'Codigo detectado' status is emitted.
C3_ResultadoAposLiberarIgnorado ==
  (last.op = "callback" /\ last.kind = "resultado" /\ ~ last.ativa) =>
    /\ ~ Processou
    /\ ContaEv(emitted, "status", "Codigo detectado") = 0

\* C4: within one session processar is invoked at most once.
C4_ProcessarNoMaximoUmaVez == \A s \in Sessoes : processados[s] <= 1

\* C5: the timer is disarmed at every terminal outcome and never outlives its
\* session: an armed timer is always the one _timeoutId names, it belongs to
\* the latest session and that session is active; after a positive result,
\* after the failure of all attempts and after resetarLeitura no timer is
\* armed; the timeout handler runs only in the active session that armed it.
C5_TimerDesarmadoNoFim ==
  /\ armados \subseteq ({timeoutId} \ {0})
  /\ timeoutId # 0 => (timeoutId = nSessoes /\ cameraAtiva)
  /\ ( \/ last.op = "callback" /\ last.kind = "resultado"
       \/ last.op = "falha" /\ last.kind = "todas"
       \/ last.op = "resetarLeitura"
       \/ last.op = "timeout" ) => (armados = {} /\ timeoutId = 0)
  /\ last.op = "timeout" => (last.ativa /\ last.sess = nSessoes)

\* C5 witness: the attempt-3 callback has received a result whose processing
\* threw, so the session is still active, and its timer is disarmed.
C5_Witness ==
  /\ last.op = "callback"
  /\ last.kind = "resultado"
  /\ last.erro # ""
  /\ cameraAtiva
  /\ armados = {}

\* C6: at most one session is in progress: never more than one attempt
\* sequence awaiting a camera, nor an attempt sequence of one session beside
\* the listening stream of another.
C6_UmaSessaoPorVez ==
  Cardinality(Pendentes \cup (IF decodificando # 0 THEN {decodificando} ELSE {})) <= 1

\* C7: iniciarLeitura on a reader that is not initialized throws the
\* not-initialized error, emits nothing and changes nothing.
C7_NaoIniciadoNadaMuda ==
  [][(last'.op = "iniciarLeitura" /\ ~ iniciado) =>
       /\ last'.erro = "Lib nao inicializada."
       /\ emitted' = <<>>
       /\ UNCHANGED <<iniciado, cameraAtiva, timeoutId, videoVisivel, srcObject,
                      armados, decodificando, callback, adiados, etapa, nSessoes,
                      processados, timeouts>>]_vars

\* C7 witness: iniciarLeitura has thrown on an uninitialized reader.
C7_Witness ==
  /\ last.op = "iniciarLeitura"
  /\ last.erro = "Lib nao inicializada."
  /\ ~ iniciado

\* C8: iniciarLeitura during an active session returns without an error,
\* emits nothing, arms no timer, starts no attempt and changes nothing.
C8_JaAtivaNadaMuda ==
  [][(last'.op = "iniciarLeitura" /\ iniciado /\ cameraAtiva) =>
       /\ last'.erro = ""
       /\ emitted' = <<>>
       /\ UNCHANGED <<iniciado, cameraAtiva, timeoutId, videoVisivel, srcObject,
                      armados, decodificando, callback, adiados, etapa, nSessoes,
                      processados, timeouts>>]_vars

\* C8 witness: iniciarLeitura has returned during a session whose timer is armed.
C8_Witness ==
  /\ last.op = "iniciarLeitura"
  /\ last.ativa
  /\ last.erro = ""
  /\ armados # {}

\* C9: resetarLeitura throws nothing and always leaves _cameraAtiva false,
\* _timeoutId null, no timer armed and no stream open, emitting 'reset' once:
\* on a reader never started, twice in a row, and when reset() throws.
C9_ResetarSempreLibera ==
  last.op = "resetarLeitura" =>
    /\ last.erro = ""
    /\ ~ cameraAtiva
    /\ timeoutId = 0
    /\ armados = {}
    /\ srcObject = 0
    /\ Conta(emitted, "reset") = 1

\* C9 witness: resetarLeitura has run a second time in a row, with reset() throwing.
C9_Witness ==
  /\ last.op = "resetarLeitura"
  /\ last.kind = "repetida"
  /\ ContaEv(emitted, "status", "Erro ao resetar leitor") = 1

\* C10: a callback invocation that reports an error and no result emits one
\* 'errorLeitura' event and nothing else, or nothing at all when the error is
\* NotFoundException, and leaves the scan as it was.
C10_ErroDeLeituraNaoPara ==
  [][(last'.op = "callback" /\ last'.kind \in {"naoEncontrado", "erro"}) =>
       /\ Conta(emitted', "errorLeitura") = (IF last'.kind = "erro" THEN 1 ELSE 0)
       /\ Len(emitted') = (IF last'.kind = "erro" THEN 1 ELSE 0)
       /\ UNCHANGED <<iniciado, cameraAtiva, timeoutId, videoVisivel, srcObject,
                      armados, decodificando, callback, adiados, etapa, nSessoes,
                      processados, timeouts>>]_vars

\* C10 witness: the decoder of an active session has reported an error that
\* is not NotFoundException.
C10_Witness ==
  /\ last.op = "callback"
  /\ last.kind = "erro"
  /\ cameraAtiva
  /\ decodificando # 0
  /\ Conta(emitted, "errorLeitura") = 1

\* C11: the attempts of a session run in the order 1, 2, 3 and the first
\* success wins: a session's sequence moves to attempt 2 only by the failure
\* of attempt 1, to attempt 3 (enumeration, then opening the chosen device)
\* only by the failure of attempt 2, it ends by the success of the attempt in
\* progress or by the failure of attempt 3, and once ended it starts no
\* attempt again; so each attempt is made at most once per session.
C11_TentativasEmOrdem ==
  [][\A s \in Sessoes : etapa'[s] # etapa[s] =>
       \/ /\ etapa[s] = "nenhuma" /\ etapa'[s] = "att1"
          /\ last'.op = "iniciarLeitura" /\ last'.sess = s
       \/ /\ etapa[s] = "att1" /\ etapa'[s] = "att2"
          /\ last'.op = "falha" /\ last'.sess = s
       \/ /\ etapa[s] = "att2" /\ etapa'[s] = "lista"
          /\ last'.op = "falha" /\ last'.sess = s
       \/ /\ etapa[s] = "lista" /\ etapa'[s] = "att3"
          /\ last'.op = "listou" /\ last'.sess = s
       \/ /\ etapa[s] \in {"att1", "att2", "att3"} /\ etapa'[s] = "fim"
          /\ last'.op = "abriu" /\ last'.sess = s
          /\ decodificando' = s /\ srcObject' = s
       \/ /\ etapa[s] \in {"lista", "att3"} /\ etapa'[s] = "fim"
          /\ last'.op = "falha" /\ last'.kind = "todas" /\ last'.sess = s]_vars

\* Attempt 3 has succeeded after attempts 1 and 2 failed.
C11_Witness ==
  /\ last.op = "abriu"
  /\ last.kind = "att3"
  /\ etapa[last.sess] = "fim"

\* C12: when attempt 3 fails, by the enumeration finding no device (error
\* 'Nenhuma camera disponivel', no device opened), by the enumeration
\* rejecting or by the opening of the chosen device rejecting, the timer is
\* cancelled, exactly one 'error' event is emitted and it carries that cause,
\* and the camera is released: _cameraAtiva is false, _timeoutId is null, no
\* timer is armed and the video element has no stream.
C12_FalhaTotalLibera ==
  (last.op = "falha" /\ last.kind = "todas") =>
    /\ Conta(emitted, "error") = 1
    /\ ContaEv(emitted, "error", last.erro) = 1
    /\ last.erro \in {"Nenhuma camera disponivel", "enumeracao", "abertura"}
    /\ ~ cameraAtiva
    /\ timeoutId = 0
    /\ armados = {}
    /\ srcObject = 0
    /\ etapa[last.sess] = "fim"

\* The enumeration of attempt 3 found no device while the session was active.
C12_Witness ==
  /\ last.op = "falha"
  /\ last.kind = "todas"
  /\ last.erro = "Nenhuma camera disponivel"
  /\ last.ativa

\* The labels of Rotulos in which back, rear or traseira occurs, in any case.
RotulosTraseiros ==
  {<<"B", "a", "c", "k">>, <<"x", "R", "E", "A", "R">>,
   <<"t", "r", "a", "s", "e", "i", "r", "a">>}

Menor(S) == CHOOSE i \in S : \A j \in S : i <= j

\* C13: for every non-empty device list, the device attempt 3 opens is the
\* first whose label contains back, rear or traseira (whatever the case of
\* its letters); when no label does, the first whose facingMode is
\* 'environment'; when there is none either, the first device of the list.
C13_DispositivoEscolhido ==
  saida # 0 =>
    LET n == Len(entrada)
        traseiras == {i \in 1..n : entrada[i].label \in RotulosTraseiros}
        ambiente == {i \in 1..n : entrada[i].facingMode = "environment"}
    IN  /\ saida \in 1..n
        /\ traseiras # {} => saida = Menor(traseiras)
        /\ (traseiras = {} /\ ambiente # {}) => saida = Menor(ambiente)
        /\ (traseiras = {} /\ ambiente = {}) => saida = 1

\* A list whose first device has facingMode 'environment' and whose second
\* has a rear label: the second is chosen.
C13_Witness ==
  /\ saida = 2
  /\ Len(entrada) = 2
  /\ entrada[1].facingMode = "environment"
  /\ entrada[1].label \notin RotulosTraseiros
  /\ entrada[2].label = <<"x", "R", "E", "A", "R">>

\* The error validarEntrada gives for the text of the last task ("" for none).
ErroValidacao == validarEntrada(last.texto, maxLengthPadrao).erro

\* The last task was a decoder callback with a result.
ResultadoAoVivo == last.op = "callback" /\ last.kind = "resultado"

\* The last task was a decodificarImagem that got a text from the image.
ResultadoDeImagem == last.op = "decodificarImagem" /\ last.kind = "processar"

\* C14 as stated: a validation failure in live capture leaves the session
\* listening: _cameraAtiva stays true and the stream stays attached.
C14_ValidacaoNaoEncerra ==
  (ResultadoAoVivo /\ ErroValidacao # "" /\ last.ativa) =>
    /\ cameraAtiva
    /\ srcObject # 0

\* C14, amended: a validation failure is surfaced at once by the status
\* 'Entrada invalida' and the text is not parsed.  In live capture the
\* callback of attempts 1 and 2 then emits one 'error' event with the
\* validation error and releases the camera, which ends the session; the
\* callback of attempt 3 rejects with the validation error, emits no 'error'
\* event and leaves _cameraAtiva as it was.  A still-image decode aborts:
\* decodificarImagem rejects with the validation error.
C14_FalhaDeValidacao ==
  /\ (ResultadoAoVivo /\ ErroValidacao # "") =>
        /\ ContaEv(emitted, "status", "Entrada invalida") = 1
        /\ Conta(emitted, "parser") = 0
        /\ last.cb = "constraints" =>
              /\ ContaEv(emitted, "error", ErroValidacao) = 1
              /\ Conta(emitted, "error") = 1
              /\ last.erro = ""
              /\ ~ cameraAtiva
              /\ srcObject = 0
              /\ timeoutId = 0
        /\ last.cb = "device" =>
              /\ last.erro = ErroValidacao
              /\ Conta(emitted, "error") = 0
              /\ cameraAtiva = last.ativa
  /\ (ResultadoDeImagem /\ ErroValidacao # "") =>
        /\ ContaEv(emitted, "status", "Entrada invalida") = 1
        /\ Conta(emitted, "parser") = 0
        /\ last.erro = ErroValidacao

\* The callback of attempt 1 or 2 got a text with a control character while
\* the session was active.
C14_Witness ==
  /\ ResultadoAoVivo
  /\ last.cb = "constraints"
  /\ last.ativa
  /\ ErroValidacao = "Entrada contem caracteres de controle invalidos."

\* C15: every failure of decodificarImagem is emitted as an 'error' event
\* carrying the error the call rejects with.
C15_ErroDeImagemEmitido ==
  (last.op = "decodificarImagem" /\ last.erro # "") =>
    ContaEv(emitted, "error", last.erro) >= 1

\* The last task called processar, from live capture or from a still image.
ChamouProcessar == ResultadoAoVivo \/ ResultadoDeImagem

\* C16: the parser is called only with a text that validarEntrada accepted, at
\* most once per processar; when validarEntrada rejects the text the parser is
\* not called, no filling of the form is done or queued, no 'processado' is
\* emitted, and the validation error reaches the caller of processar, which
\* rejects with it or (callback of attempts 1 and 2) emits it as 'error'.
C16_ParserSoAposValidar ==
  /\ Conta(emitted, "parser") >= 1 =>
        /\ ChamouProcessar
        /\ ErroValidacao = ""
        /\ Conta(emitted, "parser") = 1
  /\ (ChamouProcessar /\ ErroValidacao # "") =>
        /\ Conta(emitted, "parser") = 0
        /\ Conta(emitted, "setTimeout") = 0
        /\ Conta(emitted, "preencherCampos") = 0
        /\ Conta(emitted, "processado") = 0
        /\ \/ last.erro = ErroValidacao
           \/ last.erro = "" /\ ContaEv(emitted, "error", ErroValidacao) = 1

\* A still image of the second class's reader gave a text outside the
\* whitelist.
C16_Witness ==
  /\ ResultadoDeImagem
  /\ variante = 2
  /\ ErroValidacao = "Entrada contem caracteres invalidos."

\* The last task called processar with a text that validates and that the
\* parser accepts.
Sucesso == ChamouProcessar /\ ErroValidacao = "" /\ last.parserOk

\* C19 as stated: a processar whose text validates and whose parser succeeds
\* leads to one 'processado' event: the task emits it or queues the task that
\* will.
C19_SucessoEmiteProcessado ==
  Sucesso => Conta(emitted, "processado") + Conta(emitted, "setTimeout") = 1

\* C19, amended: after a processar whose text validates and whose parser
\* succeeds, the reader of the first class queues one deferred task and does
\* nothing else to the form; each deferred task fills the form and then emits
\* exactly one 'processado' with the extracted fields.  The reader of the
\* second class fills the form at once and emits no 'processado'.  No
\* 'processado' is emitted, and the form is not filled, when validation or
\* parsing fails.
C19_ProcessadoSoNaClasseAdiada ==
  /\ (Sucesso /\ variante = 1) =>
        /\ Conta(emitted, "setTimeout") = 1
        /\ Conta(emitted, "preencherCampos") = 0
        /\ Conta(emitted, "processado") = 0
        /\ adiados >= 1
  /\ (Sucesso /\ variante = 2) =>
        /\ Conta(emitted, "preencherCampos") = 1
        /\ Conta(emitted, "setTimeout") = 0
        /\ Conta(emitted, "processado") = 0
  /\ last.op = "adiada" =>
        /\ variante = 1
        /\ emitted = << <<"preencherCampos", "json">>, <<"processado", "json">>,
                        <<"status", "Dados processados localmente.">> >>
  /\ (ChamouProcessar /\ ~ Sucesso) =>
        /\ Conta(emitted, "setTimeout") = 0
        /\ Conta(emitted, "preencherCampos") = 0
        /\ Conta(emitted, "processado") = 0
  /\ Conta(emitted, "processado") >= 1 => last.op = "adiada"

\* The deferred task of a successful processar has run.
C19_Witness ==
  /\ last.op = "adiada"
  /\ ContaEv(emitted, "processado", "json") = 1

\* C20: when the timer fires after an attempt of its session has succeeded
\* and the decoder is listening on the open stream, no timeout 'error' is
\* emitted and the camera is not released.
C20_TimeoutSoSemSucesso ==
  (last.op = "timeout" /\ last.kind = "fim" /\ last.cb # "") =>
    /\ Conta(emitted, "error") = 0
    /\ cameraAtiva = last.ativa
    /\ srcObject = last.sess

\* The entity of each of the six characters; any other code unit stands for
\* itself.
Entidade(ch) ==
  CASE ch = "&" -> <<"&", "a", "m", "p", ";">>
    [] ch = "<" -> <<"&", "l", "t", ";">>
    [] ch = ">" -> <<"&", "g", "t", ";">>
    [] ch = "\"" -> <<"&", "q", "u", "o", "t", ";">>
    [] ch = "'" -> <<"&", "#", "3", "9", ";">>
    [] ch = "/" -> <<"&", "#", "x", "2", "F", ";">>
    [] OTHER -> <<ch>>

\* The text with every code unit replaced by its entity, in one pass.
RECURSIVE Entidades(_)
Entidades(t) == IF t = <<>> THEN <<>> ELSE Entidade(Head(t)) \o Entidades(Tail(t))

SeisCaracteres == {"&", "<", ">", "\"", "'", "/"}

\* Which of the five checks of validarEntrada fail on the argument, in the
\* order the claim gives them.
Verificacoes(texto, maxLength) ==
  << texto.tipo # "string",
     Len(texto.chars) > maxLength,
     decodeFalha(encode(texto.chars)),
     \E i \in 1..Len(texto.chars) : texto.chars[i] = "CTL",
     \/ texto.chars = <<>>
     \/ \E i \in 1..Len(texto.chars) : texto.chars[i] \in {"CTL", "SUR", "CJK"} >>

ErrosDeValidacao ==
  << "Entrada nao e uma string.", "Entrada muito longa.",
     "Texto contem bytes invalidos UTF-8.",
     "Entrada contem caracteres de controle invalidos.",
     "Entrada contem caracteres invalidos." >>

\* C17: validarEntrada fails with the error of the first check that fails, the
\* checks taken in the order not-a-string, too-long, invalid encoding, control
\* characters, disallowed characters, and then returns no sanitized value; so
\* every text longer than maxLength fails with the too-long error whatever it
\* contains; when no check fails it returns the text with each of the six
\* characters replaced once by its entity.
C17_OrdemDasVerificacoes ==
  saida.op = "validarEntrada" =>
    LET v == Verificacoes(entrada.texto, entrada.maxLength)
        falhas == {i \in 1..5 : v[i]}
    IN  /\ falhas # {} => /\ saida.erro = ErrosDeValidacao[Menor(falhas)]
                           /\ saida.valor = <<>>
        /\ falhas = {} => /\ saida.erro = ""
                           /\ saida.valor = Entidades(entrada.texto.chars)
        /\ (entrada.texto.tipo = "string"
              /\ Len(entrada.texto.chars) > entrada.maxLength) =>
             saida.erro = "Entrada muito longa."

\* A text longer than maxLength that also holds a control character was
\* refused as too long.
C17_Witness ==
  /\ saida.op = "validarEntrada"
  /\ Len(entrada.texto.chars) > entrada.maxLength
  /\ \E i \in 1..Len(entrada.texto.chars) : entrada.texto.chars[i] = "CTL"
  /\ saida.erro = "Entrada muito longa."

\* C18: sanitizeTexto returns the text with each of the six characters
\* replaced by its entity and every other code unit unchanged, the ampersands
\* of the inserted entities not escaped again; applying it to its own result
\* gives that result again exactly when the text holds none of the six
\* characters, and a longer, double-escaped text otherwise.
C18_SanitizarUmaVez ==
  saida.op = "sanitizeTexto" =>
    LET t == entrada.texto.chars
        limpo == \A i \in 1..Len(t) : t[i] \notin SeisCaracteres
    IN  /\ saida.valor = Entidades(t)
        /\ (saida.denovo = saida.valor) <=> limpo
        /\ limpo => saida.valor = t
        /\ ~ limpo => /\ saida.denovo = Entidades(saida.valor)
                       /\ Len(saida.denovo) > Len(saida.valor)

\* A text with an ampersand and a less-than sign was sanitized, and
\* sanitizing the result changed it again.
C18_Witness ==
  /\ saida.op = "sanitizeTexto"
  /\ entrada.texto.chars = <<"a", "&", "<">>
  /\ saida.valor = <<"a", "&", "a", "m", "p", ";", "&", "l", "t", ";">>
  /\ saida.denovo # saida.valor

\* C21: between tasks, whenever _cameraAtiva is false the video element has
\* no stream and the reader's decode loop is not listening.
C21_InativaSemCamera ==
  ~ cameraAtiva => (srcObject = 0 /\ decodificando = 0)

\* The last task was the timer's callback, the handler of the failed
\* sequence or resetarLeitura: each ends by liberarCamera.
TarefaQueLibera ==
  \/ last.op = "timeout"
  \/ last.op = "falha" /\ last.kind = "todas"
  \/ last.op = "resetarLeitura"

\* C22: what a listener throws does not leave _emit: every event a task emits
\* is followed by the calls of all the listeners of that event, in the order
\* they were registered, whether or not one of them throws; and the timer's
\* callback, the handler of the failed sequence and resetarLeitura complete
\* liberarCamera whatever the listeners of 'status' and 'error' do: 'Camera
\* liberada.' is emitted, _cameraAtiva is false, _timeoutId is null and no
\* timer is armed.
C22_OuvinteNaoInterrompe ==
  /\ \A p \in 1..Len(emitted) :
        emitted[p][1] \in DOMAIN ouvintes =>
          \A i \in 1..Len(ouvintes[emitted[p][1]]) :
            /\ p + i <= Len(emitted)
            /\ emitted[p + i] = <<"ouvinte", emitted[p][1], i>>
  /\ TarefaQueLibera =>
        /\ ContaEv(emitted, "status", "Camera liberada.") = 1
        /\ ~ cameraAtiva
        /\ timeoutId = 0
        /\ armados = {}

\* The timer fired in an active session of a reader whose first 'status'
\* listener throws and has another listener after it.
C22_Witness ==
  /\ last.op = "timeout"
  /\ last.ativa
  /\ "status" \in DOMAIN ouvintes
  /\ ouvintes["status"] = <<TRUE, FALSE>>


====
